---- MODULE Spec2Model ----
(***************************************************************************)
(* Model of main.py of Allert_ending_test_Period: one run of main(), which *)
(* selects the employees whose probation (test) period is ending, resolves *)
(* the managers' e-mail addresses, renders the HTML report and sends it.   *)
(*                                                                         *)
(* Dates are day numbers: datediff(DAY, a, b) counts day boundaries, so    *)
(* only the date part of HireDate and getdate() matters.  A string that    *)
(* the code inspects (an e-mail value) is a sequence of characters; SQL    *)
(* NULL / Python None is the value with isNull = TRUE.                     *)
(***************************************************************************)
EXTENDS Integers, Sequences, FiniteSets

VARIABLES
    today,          \* getdate() of the run, as a day number
    table,          \* employeehirehistory rows joined to employees / evaluations
    pc,             \* position of main()
    bound,          \* 'db_connection' in locals()
    employees,      \* main's local employees
    manager_emails, \* main's local manager_emails
    body,           \* main's local body (rows of the rendered table)
    exc,            \* exception in flight in main ("none" when there is none)
    events,         \* calls made and messages logged so far, in order
    sent            \* arguments of every send_email call, in order

vars == <<today, table, pc, bound, employees, manager_emails, body, exc, events, sent>>

----------------------------------------------------------------------------
(* Bounds of the model *)

MaxRows == 2        \* rows of a table of the scenario inputs
MaxEmails == 2      \* rows returned by GetManager / the settings lookup
DayNow == 100       \* the day the run happens
MaxHireDay == 70    \* hire days 0..MaxHireDay of the single-row inputs

----------------------------------------------------------------------------
(* Values *)

Str(s) == [isNull |-> FALSE, chars |-> s]
None == [isNull |-> TRUE, chars |-> <<>>]

\* the values of the spec's example: "a@b.com", "", "not-an-email", "c@d.com"
EmailValues ==
    { None, Str(<<>>), Str(<<"a", "@", "b">>), Str(<<"n", "o">>), Str(<<"c", "@", "d">>) }

SeqsUpTo(S, n) == UNION { [1..k -> S] : k \in 0..n }

Rows(hires, periods, employers, evals) ==
    [HireDate : hires, TestPeriod : periods, EmployeerId : employers, evals : evals]

\* scenario inputs: probation ends in 2 or in 10 days, evaluated or not
ScenarioTables == SeqsUpTo(Rows({DayNow - 88, DayNow - 80}, {90}, {2}, {0, 1}), MaxRows)

\* single-row inputs covering every day distance around the window's two ends
SingleRowTables == { <<r>> : r \in Rows(0..MaxHireDay, {30, 90}, {1, 2}, {0, 1}) }

----------------------------------------------------------------------------
(* get_employees_with_upcoming_test_end *)

DateAdd(n, d) == d + n

\* variant: the two dates of datediff taken in the other order
DateDiffSwapped(startdate, enddate) == startdate - enddate

\* datediff(DAY, startdate, enddate): enddate - startdate in days
DateDiff(startdate, enddate) == enddate - startdate

Abs(x) == IF x < 0 THEN -x ELSE x

LastTestDay(row) == DateAdd(row.TestPeriod, row.HireDate)

\* the join conditions and the where clause of the query
Matches(row, now) ==
    /\ row.EmployeerId = 2
    /\ DateDiff(LastTestDay(row), now) >= -30
    /\ DateDiff(LastTestDay(row), now) <= 0
    /\ row.evals = 0

\* one result row turned into the employee dictionary
Employee(id, row, now) ==
    [ employeehirehistoryid |-> id,
      Employee |-> id,
      HireDate |-> row.HireDate,
      TestPeriod |-> row.TestPeriod,
      LastTestDate |-> LastTestDay(row),
      MissingDayAtEndTestDate |-> Abs(DateDiff(LastTestDay(row), now)) ]

RECURSIVE Query(_, _, _)
Query(tbl, now, i) ==
    IF i > Len(tbl) THEN <<>>
    ELSE (IF Matches(tbl[i], now) THEN <<Employee(i, tbl[i], now)>> ELSE <<>>)
         \o Query(tbl, now, i + 1)

FailPoints == {"cursor", "execute", "fetchall"}

\* variant: the except branch logs and returns an empty list instead of re-raising
get_employees_swallowing(tbl, now, access) ==
    IF access = "ok"
    THEN [raised |-> FALSE, value |-> Query(tbl, now, 1),
          log |-> <<"select", "log.found">>]
    ELSE [raised |-> FALSE, value |-> <<>>,
          log |-> <<"select", "log.query_error">>]

\* outcome of the data access: the point where it raises, or "ok"
get_employees_with_upcoming_test_end(tbl, now, access) ==
    IF access = "ok"
    THEN [raised |-> FALSE, value |-> Query(tbl, now, 1),
          log |-> <<"select", "log.found">>]
    ELSE [raised |-> TRUE, value |-> <<>>,
          log |-> <<"select", "log.query_error">>]

----------------------------------------------------------------------------
(* get_manager_emails *)

\* Python truth value of row[0]: None and '' are false
Truthy(v) == ~v.isNull /\ Len(v.chars) > 0

\* '@' in row[0]
Contains(c, v) == \E i \in 1..Len(v.chars) : v.chars[i] = c

KeepEmail(v) == Truthy(v) /\ Contains("@", v)

\* what the GetManager call does: raises at a point, or returns rows
PrimaryOutcomes ==
    [fail : FailPoints, rows : {<<>>}]
        \cup [fail : {"none"}, rows : SeqsUpTo(EmailValues, MaxEmails)]

\* what utils.get_email_recipients does: raises, or returns the stored list
SettingsOutcomes ==
    [fail : {TRUE}, value : {<<>>}]
        \cup [fail : {FALSE}, value : SeqsUpTo(EmailValues \ {None}, MaxEmails)]

get_email_recipients(key, outcome) ==
    [raised |-> outcome.fail, value |-> outcome.value]

\* variant: the fallback call is not wrapped in its own try/except
FallbackUnguarded(settings) ==
    LET r == get_email_recipients("Sys_Email_Purchase", settings)
        log == <<"log.manager_error", "log.fallback_try", "resolve.fallback">>
    IN  [raised |-> r.raised, value |-> r.value, path |-> "fallback", log |-> log]

\* the except branch of get_manager_emails: the settings fallback
Fallback(settings) ==
    LET r == get_email_recipients("Sys_Email_Purchase", settings)
        log == <<"log.manager_error", "log.fallback_try", "resolve.fallback">>
    IN  IF r.raised
        THEN [raised |-> FALSE, value |-> <<>>, path |-> "empty",
              log |-> log \o <<"log.fallback_error">>]
        ELSE [raised |-> FALSE, value |-> r.value, path |-> "fallback", log |-> log]

get_manager_emails(employee_ids, primary, settings) ==
    IF employee_ids = <<>>
    THEN [raised |-> FALSE, value |-> <<>>, path |-> "no_ids", log |-> <<>>]
    ELSE IF primary.fail = "none"
         THEN [raised |-> FALSE, value |-> SelectSeq(primary.rows, KeepEmail),
               path |-> "primary", log |-> <<"resolve.primary", "log.emails_found">>]
         ELSE LET f == Fallback(settings)
              IN  [f EXCEPT !.log = <<"resolve.primary">> \o @]

----------------------------------------------------------------------------
(* create_email_body *)

\* variant: strict comparisons at the two thresholds
DaysClassStrict(days_left) ==
    IF days_left < 3 THEN "urgent"
    ELSE IF days_left < 7 THEN "warning"
    ELSE "info"

DaysClass(days_left) ==
    IF days_left <= 3 THEN "urgent"
    ELSE IF days_left <= 7 THEN "warning"
    ELSE "info"

TableRow(emp) ==
    [ Employee |-> emp.Employee,
      HireDate |-> emp.HireDate,
      TestPeriod |-> emp.TestPeriod,
      LastTestDate |-> emp.LastTestDate,
      days |-> emp.MissingDayAtEndTestDate,
      class |-> DaysClass(emp.MissingDayAtEndTestDate) ]

\* variant: the loop is left after its first iteration
create_email_body_first_row(emps) ==
    [i \in 1..(IF Len(emps) > 0 THEN 1 ELSE 0) |-> TableRow(emps[i])]

\* the <tr> elements of the <tbody>, in the order they are appended
create_email_body(emps) == [i \in 1..Len(emps) |-> TableRow(emps[i])]

----------------------------------------------------------------------------
(* main *)

Init ==
    /\ today = DayNow
    /\ table \in ScenarioTables \cup SingleRowTables
    /\ pc = "config"
    /\ bound = FALSE
    /\ employees = <<>>
    /\ manager_emails = <<>>
    /\ body = <<>>
    /\ exc = "none"
    /\ events = <<>>
    /\ sent = <<>>

\* ConfigManager() and DatabaseConnection(config_manager) both construct
ConstructOk ==
    /\ pc = "config"
    /\ bound' = TRUE
    /\ pc' = "connect"
    /\ UNCHANGED <<today, table, employees, manager_emails, body, exc, events, sent>>

\* one of the two constructors raises: db_connection is never bound
ConstructFail ==
    /\ pc = "config"
    /\ \E who \in {"ConfigManager", "DatabaseConnection"} : exc' = who
    /\ pc' = "except"
    /\ UNCHANGED <<today, table, bound, employees, manager_emails, body, events, sent>>

\* conn = db_connection.connect()
Connect ==
    /\ pc = "connect"
    /\ events' = Append(events, "connect")
    /\ \E ok \in BOOLEAN :
          IF ok THEN pc' = "select" /\ exc' = exc
                ELSE pc' = "except" /\ exc' = "connect"
    /\ UNCHANGED <<today, table, bound, employees, manager_emails, body, sent>>

\* variant: no early return on an empty selection
AfterSelectNoReturn(emps) == "resolve"

\* the branch on the selector's result
AfterSelect(emps) == IF emps = <<>> THEN "finally" ELSE "resolve"

\* employees = get_employees_with_upcoming_test_end(conn); if not employees: return
Select ==
    /\ pc = "select"
    /\ \E access \in {"ok"} \cup FailPoints :
          LET r == get_employees_with_upcoming_test_end(table, today, access)
          IN  IF r.raised
              THEN /\ exc' = access
                   /\ pc' = "except"
                   /\ events' = events \o r.log
                   /\ employees' = employees
              ELSE /\ exc' = exc
                   /\ employees' = r.value
                   /\ pc' = AfterSelect(r.value)
                   /\ events' = events \o r.log \o
                        (IF AfterSelect(r.value) = "finally"
                         THEN <<"log.no_employees">> ELSE <<>>)
    /\ UNCHANGED <<today, table, bound, manager_emails, body, sent>>

EmployeeIds(emps) == [i \in 1..Len(emps) |-> emps[i].employeehirehistoryid]

\* variant: no early return on an empty recipient list
AfterResolveNoReturn(emails) == "render"

\* the branch on the resolver's result
AfterResolve(emails) == IF emails = <<>> THEN "finally" ELSE "render"

\* manager_emails = get_manager_emails(conn, employee_ids); if not manager_emails: return
Resolve ==
    /\ pc = "resolve"
    /\ \E primary \in PrimaryOutcomes, settings \in SettingsOutcomes :
          LET r == get_manager_emails(EmployeeIds(employees), primary, settings)
          IN  IF r.raised
              THEN /\ exc' = "resolve"
                   /\ pc' = "except"
                   /\ events' = events \o <<"resolve">> \o r.log
                   /\ manager_emails' = manager_emails
              ELSE /\ exc' = exc
                   /\ manager_emails' = r.value
                   /\ pc' = AfterResolve(r.value)
                   /\ events' = events \o <<"resolve">> \o r.log \o
                        (IF AfterResolve(r.value) = "finally"
                         THEN <<"log.no_emails">> ELSE <<>>)
    /\ UNCHANGED <<today, table, bound, employees, body, sent>>

\* subject = ...; body = create_email_body(employees)
Render ==
    /\ pc = "render"
    /\ body' = create_email_body(employees)
    /\ events' = Append(events, "render")
    /\ pc' = "send"
    /\ UNCHANGED <<today, table, bound, employees, manager_emails, exc, sent>>

\* send_email(recipients=manager_emails, subject, body, is_html=True); log success
Send ==
    /\ pc = "send"
    /\ \E ok \in BOOLEAN :
          /\ sent' = Append(sent, [recipients |-> manager_emails, body |-> body,
                                   is_html |-> TRUE, raised |-> ~ok])
          /\ IF ok
                THEN /\ events' = events \o <<"send", "log.success">>
                     /\ pc' = "finally"
                     /\ exc' = exc
                ELSE /\ events' = Append(events, "send")
                     /\ pc' = "except"
                     /\ exc' = "send"
    /\ UNCHANGED <<today, table, bound, employees, manager_emails, body>>

\* variant: the handler logs and does not re-raise
ExceptSwallowing ==
    /\ pc = "except"
    /\ events' = Append(events, "log.program_error")
    /\ pc' = "finally"
    /\ exc' = "none"
    /\ UNCHANGED <<today, table, bound, employees, manager_emails, body, sent>>

\* except Exception as e: logger.error(...); raise
Except ==
    /\ pc = "except"
    /\ events' = Append(events, "log.program_error")
    /\ pc' = "finally"
    /\ UNCHANGED <<today, table, bound, employees, manager_emails, body, exc, sent>>

\* variant: disconnect as the last statement of the try block, no finally
FinallyOnSuccessOnly ==
    /\ pc = "finally"
    /\ events' = IF bound /\ exc = "none" THEN Append(events, "disconnect") ELSE events
    /\ pc' = "done"
    /\ UNCHANGED <<today, table, bound, employees, manager_emails, body, exc, sent>>

\* finally: if 'db_connection' in locals(): db_connection.disconnect()
Finally ==
    /\ pc = "finally"
    /\ events' = IF bound THEN Append(events, "disconnect") ELSE events
    /\ pc' = "done"
    /\ UNCHANGED <<today, table, bound, employees, manager_emails, body, exc, sent>>

Next ==
    \/ ConstructOk
    \/ ConstructFail
    \/ Connect
    \/ Select
    \/ Resolve
    \/ Render
    \/ Send
    \/ Except
    \/ Finally

Spec == Init /\ [][Next]_vars

\* how the run of main ended
Done == pc = "done"
Raised == Done /\ exc # "none"
Returned == Done /\ exc = "none"

----------------------------------------------------------------------------
(* Properties *)

Range(s) == { s[i] : i \in 1..Len(s) }
Happened(e) == e \in Range(events)
Count(e) == Cardinality({ i \in 1..Len(events) : events[i] = e })
Position(e) == CHOOSE i \in 1..Len(events) : events[i] = e
ProbationEnd(i) == table[i].HireDate + table[i].TestPeriod
Selected(i) == \E k \in 1..Len(employees) : employees[k].employeehirehistoryid = i
SelectReturned == Happened("log.found")
NoneOf(es) == Range(events) \cap es = {}
ResolverCalls == {"resolve", "resolve.primary", "resolve.fallback"}

\* C1 as stated: a row of employer 2 without evaluation is selected exactly
\* when its probation end date lies between today - 30 and today inclusive
C1_WindowInThePast ==
    SelectReturned =>
        \A i \in 1..Len(table) :
            (table[i].EmployeerId = 2 /\ table[i].evals = 0) =>
                (Selected(i) <=>
                    (today - ProbationEnd(i) >= 0 /\ today - ProbationEnd(i) <= 30))

\* C1 amended: a row is selected exactly when it is of employer 2, has no
\* evaluation-history entry, and its probation end date lies between today and
\* today + 30 inclusive (today + 30 in, today + 31 out, today - 1 out)
C1_WindowAhead ==
    SelectReturned =>
        \A i \in 1..Len(table) :
            Selected(i) <=>
                /\ table[i].EmployeerId = 2
                /\ table[i].evals = 0
                /\ ProbationEnd(i) >= today
                /\ ProbationEnd(i) <= today + 30

C1_Witness ==
    /\ SelectReturned
    /\ \E i \in 1..Len(table) : Selected(i) /\ ProbationEnd(i) = today + 30

\* C2: every item of the sequence get_manager_emails returned is non-empty and
\* contains '@', whichever path produced it
C2_AllRecipientsValid ==
    \A i \in 1..Len(manager_emails) :
        /\ ~manager_emails[i].isNull
        /\ manager_emails[i].chars # <<>>
        /\ "@" \in Range(manager_emails[i].chars)

\* C3: when the primary strategy raises, the fallback is attempted exactly once;
\* when the fallback raises too the result is empty; no exception ever escapes
\* get_manager_emails
C3_FallbackOnceNoEscape ==
    /\ exc # "resolve"
    /\ Happened("log.manager_error") =>
          /\ Count("resolve.primary") = 1
          /\ Count("resolve.fallback") = 1
    /\ Happened("log.fallback_error") =>
          /\ manager_emails = <<>>
          /\ pc \in {"finally", "done"}
    /\ Count("resolve.fallback") <= 1
    /\ Happened("resolve.fallback") => Happened("log.manager_error")

C3_Witness ==
    /\ pc = "finally"
    /\ Happened("log.fallback_error")
    /\ Count("resolve.fallback") = 1

\* C4: once connect has been attempted, the run ends with exactly one call of
\* disconnect, as its last event, on every exit path; and the selector and the
\* resolver never use the connection after the release
C4_AlwaysReleased ==
    /\ (Done /\ Happened("connect")) =>
          /\ Count("disconnect") = 1
          /\ events[Len(events)] = "disconnect"
    /\ \A i, j \in 1..Len(events) :
          (i < j /\ events[i] = "disconnect") =>
              events[j] \notin ({"connect", "select"} \cup ResolverCalls)

C4_Witness ==
    /\ Done
    /\ exc = "connect"
    /\ events[Len(events)] = "disconnect"

\* C5: when the selector returns no record, the run ends without error and the
\* resolver, the renderer and the notifier are never invoked
C5_NoEmployeesStops ==
    (SelectReturned /\ employees = <<>>) =>
        /\ exc = "none"
        /\ NoneOf(ResolverCalls \cup {"render", "send"})
        /\ sent = <<>>
        /\ pc \in {"finally", "done"}

C5_Witness ==
    /\ Done
    /\ SelectReturned
    /\ employees = <<>>
    /\ Happened("log.no_employees")

\* C6: when the resolver returns no recipient, the run ends normally: nothing is
\* raised, the renderer and the notifier are never invoked, no e-mail is sent
C6_NoRecipientsStops ==
    (Happened("resolve") /\ manager_emails = <<>>) =>
        /\ exc = "none"
        /\ NoneOf({"render", "send"})
        /\ sent = <<>>
        /\ pc \in {"finally", "done"}

C6_Witness ==
    /\ Returned
    /\ Happened("log.fallback_error")
    /\ Happened("log.no_emails")

\* C7: when the eligibility query fails, no result is kept, the exception goes
\* out of main, and the resolver, the renderer and the notifier are never invoked
C7_QueryFailureAborts ==
    Happened("log.query_error") =>
        /\ employees = <<>>
        /\ exc \in FailPoints
        /\ pc \in {"except", "finally", "done"}
        /\ NoneOf(ResolverCalls \cup {"render", "send"})
        /\ sent = <<>>

C7_Witness ==
    /\ Raised
    /\ Happened("log.query_error")
    /\ exc = "fetchall"

\* C8: the class of a rendered row is decided by its days alone: urgent up to 3,
\* warning from 4 to 7, info above, and always one of the three
C8_UrgencyClass ==
    \A i \in 1..Len(body) :
        /\ body[i].class \in {"urgent", "warning", "info"}
        /\ body[i].class = "urgent" <=> body[i].days <= 3
        /\ body[i].class = "warning" <=> (body[i].days >= 4 /\ body[i].days <= 7)
        /\ body[i].class = "info" <=> body[i].days >= 8
        /\ body[i].days = employees[i].MissingDayAtEndTestDate

C8_Witness ==
    /\ Len(body) = 1
    /\ body[1].days = 7
    /\ body[1].class = "warning"

ClassOfDays(d) == CASE d <= 3 -> "urgent" [] d >= 4 /\ d <= 7 -> "warning" [] d >= 8 -> "info"

\* C9: with n >= 1 records and m >= 1 recipients send_email is invoked exactly
\* once, after selection, resolution and rendering, with the resolver's sequence
\* unchanged and a body of n rows, one per record in order, each with its class
C9_OneSendWithReport ==
    /\ Len(sent) <= 1
    /\ (Done /\ employees # <<>> /\ manager_emails # <<>>) =>
          /\ Len(sent) = 1
          /\ Count("send") = 1
          /\ sent[1].recipients = manager_emails
          /\ sent[1].is_html
          /\ Len(sent[1].body) = Len(employees)
          /\ \A i \in 1..Len(employees) :
                /\ sent[1].body[i].Employee = employees[i].Employee
                /\ sent[1].body[i].days = employees[i].MissingDayAtEndTestDate
                /\ sent[1].body[i].class = ClassOfDays(employees[i].MissingDayAtEndTestDate)
          /\ Position("select") < Position("resolve")
          /\ Position("resolve") < Position("render")
          /\ Position("render") < Position("send")

C9_Witness ==
    /\ Returned
    /\ Len(employees) = 2
    /\ Len(sent) = 1
    /\ Len(sent[1].recipients) = 2
    /\ sent[1].recipients[1] = sent[1].recipients[2]
    /\ sent[1].body[1].class = "urgent"
    /\ sent[1].body[2].class = "info"

\* C10: when send_email raises it is not called again, the success message is
\* not logged, the exception goes out of main and the connection is released
C10_SendFailureFatal ==
    (sent # <<>> /\ sent[1].raised) =>
        /\ Len(sent) = 1
        /\ Count("send") = 1
        /\ ~Happened("log.success")
        /\ pc \in {"except", "finally", "done"}
        /\ exc = "send"
        /\ Done => (Count("disconnect") = 1 /\ events[Len(events)] = "disconnect")

C10_Witness ==
    /\ Raised
    /\ sent # <<>>
    /\ sent[1].raised
    /\ Happened("disconnect")

====
